---- MODULE Spec2Model ----
(***************************************************************************)
(* Model of atomate2.vasp.drones.VaspDrone (src/src/atomate2/vasp/drones.py) *)
(*                                                                         *)
(* Python strings are sequences of one-character strings, so that          *)
(* str.endswith, the f-string f"relax{i}" and the glob pattern             *)
(* "vasprun.xml*" are computed character by character, as the code does.   *)
(*                                                                         *)
(* Three specifications share the variables:                               *)
(*   Spec      two calls of get_valid_paths on one directory, the caller's *)
(*             lists and the directory's contents free at each call;       *)
(*   SpecWalk  a directory tree is built, then walked top-down, with       *)
(*             get_valid_paths called once per visited directory;          *)
(*   SpecAssim calls of assimilate against the external parser.            *)
(***************************************************************************)
EXTENDS Integers, Sequences, FiniteSets

VARIABLES
    task_document_kwargs,  \* VaspDrone.task_document_kwargs (line 30)
    dir,                   \* Spec: the directory looked at: its path string and
                           \*   the set of its subdirectories' names
    path,                  \* Spec: the caller's (parent, subdirs, files) triple,
                           \*   as the latest call left it
    first,                 \* Spec: the first get_valid_paths call: the triple
                           \*   passed, the names the glob saw, the result
    second,                \* Spec: the second call on the same directory
    top,                   \* SpecWalk: the path string the walk starts from
    tree,                  \* SpecWalk: the directories below top, each the
                           \*   sequence of names leading to it
    pc,                    \* SpecWalk: "setup" (the tree is made), "walk"
    todo,                  \* SpecWalk: directories discovered and not yet visited
    visits,                \* SpecWalk: what the call on each visited directory did
    cwd,                   \* SpecAssim: the process's current working directory
    parser_calls,          \* SpecAssim: invocations of TaskDocument.from_directory
    log,                   \* SpecAssim: records emitted on the module's logger
    outcomes               \* SpecAssim: what each assimilate call gave its caller

vars == <<task_document_kwargs, dir, path, first, second, top, tree, pc, todo, visits,
          cwd, parser_calls, log, outcomes>>

(***************************************************************************)
(* Strings                                                                 *)
(***************************************************************************)
Range(s) == {s[i] : i \in DOMAIN s}

\* os.sep on POSIX (line 86)
SEP == <<"/">>

\* str(i) for a natural number, as the f-string of line 82 formats it
DigitChar(d) == <<"0", "1", "2", "3", "4", "5", "6", "7", "8", "9">>[d + 1]

RECURSIVE IntToStr(_)
IntToStr(n) ==
    IF n < 10 THEN <<DigitChar(n)>>
    ELSE IntToStr(n \div 10) \o <<DigitChar(n % 10)>>

\* str.endswith (line 86)
EndsWith(s, suffix) ==
    /\ Len(s) >= Len(suffix)
    /\ SubSeq(s, Len(s) - Len(suffix) + 1, Len(s)) = suffix

\* str.startswith: a name matches the pattern "<prefix>*" iff it starts with it
StartsWith(s, prefix) ==
    /\ Len(s) >= Len(prefix)
    /\ SubSeq(s, 1, Len(prefix)) = prefix

S_precondition == <<"p", "r", "e", "c", "o", "n", "d", "i", "t", "i", "o", "n">>
S_relax == <<"r", "e", "l", "a", "x">>
S_vasprun_xml == <<"v", "a", "s", "p", "r", "u", "n", ".", "x", "m", "l">>
S_vasprun == <<"v", "a", "s", "p", "r", "u", "n">>
S_gz == <<".", "g", "z">>
S_OUTCAR == <<"O", "U", "T", "C", "A", "R">>
S_run == <<"r", "u", "n">>
S_final == <<"f", "i", "n", "a", "l">>
S_x == <<"x">>

(***************************************************************************)
(* VaspDrone.get_valid_paths                                               *)
(***************************************************************************)
\* range(9) of line 82
RelaxCount == 9

\* task_names = ["precondition"] + [f"relax{i}" for i in range(9)]
task_names ==
    <<S_precondition>> \o [k \in 1..RelaxCount |-> S_relax \o IntToStr(k - 1)]

\* variant: only the first subdirectory is looked at
IntersectsFirstOnly(subdirs) ==
    Len(subdirs) > 0 /\ subdirs[1] \in Range(task_names)

\* set(task_names).intersection(subdirs), truthy iff not empty (line 83)
Intersects(subdirs) ==
    Range(task_names) \cap Range(subdirs) # {}

\* variant: the whole parent string is compared with the names
IsTaskName(parent) ==
    \E k \in DOMAIN task_names : parent = task_names[k]

\* any([parent.endswith(os.sep + r) for r in task_names]) (line 86)
EndsWithTaskName(parent) ==
    \E k \in DOMAIN task_names : EndsWith(parent, SEP \o task_names[k])

\* Path(parent): pathlib drops trailing separators (the root "/" stays)
RECURSIVE PathOf(_)
PathOf(p) ==
    IF Len(p) > 1 /\ EndsWith(p, SEP) THEN PathOf(SubSeq(p, 1, Len(p) - 1))
    ELSE p

\* Path(parent).glob("vasprun.xml*"): the names in the directory that match
Glob(listing) == {n \in listing : StartsWith(n, S_vasprun_xml)}

\* The body of get_valid_paths (lines 81-90) on the triple (parent, subdirs,
\* files), with `listing` the names the directory Path(parent) holds when the
\* glob reads it. ret is the list returned, line the return statement taken,
\* subdirs and files the caller's two lists as the call leaves them.
Returned(parent, subdirs, files, ret, line) ==
    [ret |-> ret, line |-> line, subdirs |-> subdirs, files |-> files]

\* variant: the self-name exclusion is tested before the container rule
gvp_exclusion_first(parent, subdirs, files, listing) ==
    IF EndsWithTaskName(parent)
    THEN Returned(parent, subdirs, files, <<>>, 90)
    ELSE IF Intersects(subdirs)
    THEN Returned(parent, subdirs, files, <<parent>>, 84)
    ELSE IF Cardinality(Glob(listing)) > 0
    THEN Returned(parent, subdirs, files, <<parent>>, 89)
    ELSE Returned(parent, subdirs, files, <<>>, 90)

\* variant: the files element is matched instead of the directory's contents
gvp_uses_files(parent, subdirs, files, listing) ==
    IF Intersects(subdirs)
    THEN Returned(parent, subdirs, files, <<parent>>, 84)
    ELSE IF ~EndsWithTaskName(parent) /\ Cardinality(Glob(Range(files))) > 0
    THEN Returned(parent, subdirs, files, <<parent>>, 89)
    ELSE Returned(parent, subdirs, files, <<>>, 90)

\* variant: an accepted container's subdirs list is emptied in place
gvp_prunes(parent, subdirs, files, listing) ==
    IF Intersects(subdirs)
    THEN Returned(parent, <<>>, files, <<parent>>, 84)
    ELSE IF ~EndsWithTaskName(parent) /\ Cardinality(Glob(listing)) > 0
    THEN Returned(parent, subdirs, files, <<parent>>, 89)
    ELSE Returned(parent, subdirs, files, <<>>, 90)

get_valid_paths(parent, subdirs, files, listing) ==
    IF Intersects(subdirs)
    THEN Returned(parent, subdirs, files, <<parent>>, 84)
    ELSE IF ~EndsWithTaskName(parent) /\ Cardinality(Glob(listing)) > 0
    THEN Returned(parent, subdirs, files, <<parent>>, 89)
    ELSE Returned(parent, subdirs, files, <<>>, 90)

(***************************************************************************)
(* Inputs of Spec                                                          *)
(***************************************************************************)
MaxSubdirs == 2

Relax(i) == S_relax \o IntToStr(i)

\* names a subdirectory can have: reserved names, relax9 and a free name
SubdirNames ==
    {S_precondition, Relax(0), Relax(8), Relax(9), S_final}

SeqsUpTo(S, n) == UNION {[1..k -> S] : k \in 0..n}

SubdirLists == SeqsUpTo(SubdirNames, MaxSubdirs)

\* the parent string in the forms a caller can pass
ParentPaths ==
    { SEP \o S_run,                               \* /run
      SEP \o S_run \o SEP \o S_final,             \* /run/final
      SEP \o S_run \o SEP \o Relax(0),            \* /run/relax0
      SEP \o S_run \o SEP \o Relax(0) \o SEP,     \* /run/relax0/
      Relax(0),                                   \* relax0
      SEP \o S_run \o SEP \o S_x \o Relax(0),     \* /run/xrelax0
      SEP \o S_run \o SEP \o Relax(9),            \* /run/relax9
      SEP \o S_run \o SEP \o S_precondition }     \* /run/precondition

\* what the directory can hold when the glob reads it
DirListings ==
    { {},
      {S_OUTCAR, S_vasprun},
      {S_vasprun_xml},
      {S_OUTCAR, S_vasprun_xml \o S_gz} }

\* the files element of the triple: the code never reads it
FileLists == { <<>>, <<S_vasprun_xml>> }

KwargsSet == { "store_volumetric_data", "none" }

NoCall == [called |-> FALSE]

(***************************************************************************)
(* Spec: get_valid_paths called twice on one directory                     *)
(***************************************************************************)
WalkIdle ==
    /\ top = SEP \o S_run
    /\ tree = {}
    /\ pc = "off"
    /\ todo = {}
    /\ visits = {}

AssimIdle ==
    /\ cwd = SEP \o S_run
    /\ parser_calls = <<>>
    /\ log = <<>>
    /\ outcomes = <<>>

Init ==
    /\ task_document_kwargs \in KwargsSet
    /\ dir \in [parent : ParentPaths, names : {Range(s) : s \in SubdirLists}]
    /\ path = NoCall
    /\ first = NoCall
    /\ second = NoCall
    /\ WalkIdle
    /\ AssimIdle

\* drone.get_valid_paths((parent, subdirs, files)): the caller lists the
\* directory's subdirectory names in some order (names may repeat), passes
\* some files element, and the glob reads what the directory holds then.
Call_get_valid_paths(subdirs, files, listing) ==
    LET r == get_valid_paths(dir.parent, subdirs, files, listing)
        call == [called |-> TRUE,
                 args |-> [parent |-> dir.parent, subdirs |-> subdirs,
                           files |-> files],
                 kwargs |-> task_document_kwargs,
                 globbed |-> listing, ret |-> r.ret, line |-> r.line]
    IN  /\ IF first.called
           THEN second' = call /\ first' = first
           ELSE first' = call /\ second' = second
        /\ path' = [parent |-> dir.parent, subdirs |-> r.subdirs,
                    files |-> r.files]
        /\ UNCHANGED <<task_document_kwargs, dir, top, tree, pc, todo, visits,
                       cwd, parser_calls, log, outcomes>>

\* every way of listing the names of `names` in at most MaxSubdirs places
ListsOf(names) == {s \in SubdirLists : Range(s) = names}

\* The claims relate at most two calls, so a behaviour makes two.
Next ==
    /\ ~second.called
    /\ \E s \in ListsOf(dir.names), f \in FileLists, e \in DirListings :
           Call_get_valid_paths(s, f, e)

Spec == Init /\ [][Next]_vars

(***************************************************************************)
(* The claims' vocabulary, stated apart from the code's definitions        *)
(***************************************************************************)
\* the reserved names as the specification lists them
ReservedNames == {S_precondition} \cup {Relax(i) : i \in 0..8}

\* the names the docstring of get_valid_paths lists: relax1 ... relax9
DocstringNames == {Relax(i) : i \in 1..9}

\* the final path segment of a path string: trailing separators dropped, then
\* the characters after the last separator
RECURSIVE AfterLastSep(_)
AfterLastSep(p) ==
    IF Len(p) = 0 \/ p[Len(p)] = "/" THEN <<>>
    ELSE AfterLastSep(SubSeq(p, 1, Len(p) - 1)) \o <<p[Len(p)]>>

LastSegment(p) == AfterLastSep(PathOf(p))

HasReservedSubdir(call) == Range(call.args.subdirs) \cap ReservedNames # {}

HoldsVasprun(listing) == \E n \in listing : StartsWith(n, S_vasprun_xml)

Accepted(call) == call.ret = <<call.args.parent>>

Rejected(call) == call.ret = <<>>

Calls == {c \in {first, second} : c.called}

(***************************************************************************)
(* Claims checked under Spec                                               *)
(***************************************************************************)
\* C1: whenever subdirs holds a reserved name (precondition, relax0..relax8)
\* the result is exactly [parent], whatever parent's final segment is and
\* whatever the directory holds.
C1_ContainerRule ==
    \A c \in Calls : HasReservedSubdir(c) => Accepted(c)

\* C1's case: a directory named relax0 that holds a vasprun.xml file and has
\* a reserved-name subdirectory was classified.
C1_Witness ==
    /\ first.called
    /\ HasReservedSubdir(first)
    /\ LastSegment(first.args.parent) \in ReservedNames
    /\ HoldsVasprun(first.globbed)
    /\ first.line = 84

\* C2: a directory whose final path segment is a reserved name, in any form
\* of the parent string, and whose subdirs hold no reserved name is rejected
\* even when it holds vasprun.xml* entries.
C2_SelfNameExclusion ==
    \A c \in Calls :
        (LastSegment(c.args.parent) \in ReservedNames /\ ~HasReservedSubdir(c))
            => Rejected(c)

\* C3: with no reserved subdirectory and a final segment that is not
\* reserved, the result is [parent] iff the directory holds an entry whose
\* name starts with vasprun.xml; in every case the container rule and this
\* rule do not cover, the result is [].
C3_LeafRuleAndRejection ==
    \A c \in Calls :
        ~HasReservedSubdir(c) =>
            IF LastSegment(c.args.parent) \notin ReservedNames
            THEN Accepted(c) <=> HoldsVasprun(c.globbed)
            ELSE Rejected(c)

\* C4: two calls with the same parent string and the same set of
\* subdirectory names return the same result, whatever files is and whatever
\* the directory holds at the time of each call.
C4_PureInParentAndSubdirs ==
    (/\ second.called
     /\ second.args.parent = first.args.parent
     /\ Range(second.args.subdirs) = Range(first.args.subdirs))
        => second.ret = first.ret

\* C4 as amended: two calls with the same parent string and the same set of
\* subdirectory names return the same result whenever the directory holds a
\* vasprun.xml* entry at both calls or at neither, whatever files is.
C4_PureGivenGlob ==
    (/\ second.called
     /\ second.args.parent = first.args.parent
     /\ Range(second.args.subdirs) = Range(first.args.subdirs)
     /\ HoldsVasprun(second.globbed) <=> HoldsVasprun(first.globbed))
        => second.ret = first.ret

\* C4's case: two calls that differ in files and in what the directory
\* holds, both finding a vasprun.xml* entry, the leaf rule deciding.
C4_Witness ==
    /\ second.called
    /\ second.args.files # first.args.files
    /\ second.globbed # first.globbed
    /\ HoldsVasprun(second.globbed)
    /\ HoldsVasprun(first.globbed)
    /\ first.line = 89

\* C8: for every i in 1..9, a directory with a subdirectory named relax<i>
\* is accepted, and a directory named relax<i> with no reserved-name
\* subdirectory is rejected even when it holds vasprun.xml* entries.
C8_DocstringNames ==
    \A c \in Calls :
        /\ Range(c.args.subdirs) \cap DocstringNames # {} => Accepted(c)
        /\ (/\ LastSegment(c.args.parent) \in DocstringNames
            /\ Range(c.args.subdirs) \cap (DocstringNames \cup ReservedNames) = {})
               => Rejected(c)

\* C9: two calls with the same parent, the same files and the same directory
\* contents, whose subdirs list the same names in another order or with
\* names repeated, return the same result.
C9_PermutationInvariance ==
    (/\ second.called
     /\ second.args.parent = first.args.parent
     /\ second.args.files = first.args.files
     /\ second.globbed = first.globbed
     /\ Range(second.args.subdirs) = Range(first.args.subdirs))
        => second.ret = first.ret

\* C9's case: the same names passed in two orders, a reserved one among
\* them, to two calls that see the same files and directory contents.
C9_Witness ==
    /\ second.called
    /\ second.args.files = first.args.files
    /\ second.globbed = first.globbed
    /\ second.args.subdirs # first.args.subdirs
    /\ Len(second.args.subdirs) > 1
    /\ HasReservedSubdir(first)
    /\ first.args.subdirs[1] \notin ReservedNames

\* C10: every call returns [] or [parent] with parent exactly as passed,
\* and leaves the caller's subdirs and files lists and the drone's
\* task_document_kwargs as they were.
C10_ShapeAndFrame ==
    \A c \in Calls :
        /\ c.ret = <<>> \/ c.ret = <<c.args.parent>>
        /\ task_document_kwargs = c.kwargs
        /\ (c = (IF second.called THEN second ELSE first)) => path = c.args

\* C10's case: a call accepted by the container rule returned, with two
\* names in subdirs and a trailing separator in parent.
C10_Witness ==
    /\ first.called
    /\ first.line = 84
    /\ Len(first.args.subdirs) = 2
    /\ EndsWith(first.args.parent, SEP)

(***************************************************************************)
(* SpecWalk: a tree is made, then walked as os.walk walks it, top-down,    *)
(* with get_valid_paths called once on each directory's triple             *)
(***************************************************************************)
MaxNodes == 3

WalkNames == {Relax(0), S_final}

WalkRoots ==
    { SEP \o S_run,             \* /run
      SEP \o S_run \o SEP,      \* /run/
      Relax(0) }                \* relax0

\* os.path.join(a, b) for a name b (posixpath: b has no separator)
Join(a, b) ==
    IF Len(a) = 0 \/ EndsWith(a, SEP) THEN a \o b ELSE a \o SEP \o b

\* the path string os.walk yields for a directory of the tree
RECURSIVE PathString(_)
PathString(node) ==
    IF Len(node) = 0 THEN top
    ELSE Join(PathString(SubSeq(node, 1, Len(node) - 1)), node[Len(node)])

Parent(node) == SubSeq(node, 1, Len(node) - 1)

Children(node) == {c \in tree : Len(c) > 0 /\ Parent(c) = node}

ChildNames(node) == {c[Len(c)] : c \in Children(node)}

\* the lists that name each element of a set once, in any order
Orderings(S) ==
    {s \in [1..Cardinality(S) -> S] : Range(s) = S}

InitWalk ==
    /\ task_document_kwargs = "none"
    /\ dir = [parent |-> SEP \o S_run, names |-> {}]
    /\ path = NoCall
    /\ first = NoCall
    /\ second = NoCall
    /\ top \in WalkRoots
    /\ tree = {}
    /\ pc = "setup"
    /\ todo = {}
    /\ visits = {}
    /\ AssimIdle

\* a directory is made under top or under a directory of the tree
Mkdir(under, name) ==
    /\ pc = "setup"
    /\ Cardinality(tree) < MaxNodes
    /\ under = <<>> \/ under \in tree
    /\ Append(under, name) \notin tree
    /\ tree' = tree \cup {Append(under, name)}
    /\ UNCHANGED <<task_document_kwargs, dir, path, first, second, top, pc,
                   todo, visits, cwd, parser_calls, log, outcomes>>

\* os.walk(top) starts
StartWalk ==
    /\ pc = "setup"
    /\ pc' = "walk"
    /\ todo' = {<<>>}
    /\ UNCHANGED <<task_document_kwargs, dir, path, first, second, top, tree,
                   visits, cwd, parser_calls, log, outcomes>>

\* os.walk yields (parent, subdirs, files) for a directory it has reached
\* and the driver calls get_valid_paths on it; its subdirectories are walked
\* later. The directory holds `listing` besides its subdirectories; files
\* names the listing in the order scandir gave.
Visit(node, subdirs, files, listing) ==
    LET parent == PathString(node)
        r == get_valid_paths(parent, subdirs, files,
                             listing \cup ChildNames(node))
    IN  /\ pc = "walk"
        /\ node \in todo
        /\ todo' = (todo \ {node}) \cup Children(node)
        /\ visits' = visits \cup
               {[node |-> node, parent |-> parent, globbed |-> listing,
                 ret |-> r.ret, line |-> r.line]}
        /\ UNCHANGED <<task_document_kwargs, dir, path, first, second, top,
                       tree, pc, cwd, parser_calls, log, outcomes>>

NextWalk ==
    \/ \E under \in tree \cup {<<>>}, name \in WalkNames : Mkdir(under, name)
    \/ StartWalk
    \/ \E node \in todo, listing \in DirListings :
          \E subdirs \in Orderings(ChildNames(node)),
             files \in Orderings(listing) :
                Visit(node, subdirs, files, listing)

SpecWalk == InitWalk /\ [][NextWalk]_vars

(***************************************************************************)
(* Claims checked under SpecWalk                                           *)
(***************************************************************************)
VisitOf(node) == CHOOSE v \in visits : v.node = node

Visited(node) == \E v \in visits : v.node = node

\* a staged subdirectory: its name is reserved and the call on the directory
\* holding it took the container rule
Staged(v) ==
    /\ Len(v.node) > 0
    /\ v.node[Len(v.node)] \in ReservedNames
    /\ Visited(Parent(v.node))
    /\ VisitOf(Parent(v.node)).line = 84

HasReservedChild(node) == ChildNames(node) \cap ReservedNames # {}

\* C5: across a walk, the call on a staged subdirectory returns [],
\* including when it has reserved-name subdirectories of its own or holds
\* vasprun.xml* entries.
C5_StagedNeverAccepted ==
    \A v \in visits : Staged(v) => v.ret = <<>>

\* C5 as amended: across a walk, the call on a staged subdirectory that has
\* no reserved-name subdirectory of its own returns [], including when it
\* holds vasprun.xml* entries; the call on one that has a reserved-name
\* subdirectory of its own returns the staged subdirectory, by the
\* container rule.
C5_StagedLeafNeverAccepted ==
    \A v \in visits :
        Staged(v) =>
            IF HasReservedChild(v.node)
            THEN v.ret = <<v.parent>> /\ v.line = 84
            ELSE v.ret = <<>>

\* C5's case: a staged subdirectory that holds a vasprun.xml* entry and has
\* no reserved-name subdirectory was visited.
C5_Witness ==
    \E v \in visits :
        /\ Staged(v)
        /\ ~HasReservedChild(v.node)
        /\ HoldsVasprun(v.globbed)

(***************************************************************************)
(* VaspDrone.assimilate                                                    *)
(***************************************************************************)
\* Python's None, apart from every string
None == <<"<None>">>

\* Path(path).absolute(): an absolute path as it is, a relative one under
\* the current working directory
Absolute(p, wd) ==
    IF StartsWith(p, SEP) THEN PathOf(p) ELSE Join(wd, PathOf(p))

\* `except Exception` (line 51) catches the classes derived from Exception;
\* KeyboardInterrupt and SystemExit derive from BaseException alone
IsException(e) == e \notin {"KeyboardInterrupt", "SystemExit"}

\* logger.error(f"Error in {Path(path).absolute()}\n{traceback.format_exc()}")
ErrorRecord(p, wd, e) ==
    [logger |-> "atomate2.vasp.drones", level |-> "ERROR",
     abspath |-> Absolute(p, wd), traceback |-> e]

\* TaskDocument.from_directory(path, **self.task_document_kwargs), line 50
Invocation(p, kwargs) == [path |-> p, kwargs |-> kwargs]

\* The body of assimilate (lines 46-56). `parsed` is what the external
\* parser does when invoked: [kind |-> "doc"] or [kind |-> "raise", exc |-> e];
\* `n` numbers the parser's invocations so far, and names the document the
\* next one builds. invoked: the parser invocations made; logged: the
\* records emitted; result: what the caller of assimilate gets.
Raise(e) == [kind |-> "raise", exc |-> e]

Return(doc) == [kind |-> "return", doc |-> doc]

\* the TaskDocument the parser's n-th invocation builds; Python's None as a
\* return value
Document(n) == [none |-> FALSE, parse |-> n]

NoDocument == [none |-> TRUE, parse |-> 0]

\* variant: a caught failure is logged and None returned
assimilate_swallows(arg, kwargs, wd, parsed, n) ==
    LET p == IF arg = None THEN wd ELSE arg
    IN  IF parsed.kind = "raise"
        THEN [invoked |-> <<Invocation(p, kwargs)>>,
              logged |-> IF IsException(parsed.exc)
                         THEN <<ErrorRecord(p, wd, parsed.exc)>> ELSE <<>>,
              result |-> IF IsException(parsed.exc)
                         THEN Return(NoDocument) ELSE Raise(parsed.exc)]
        ELSE [invoked |-> <<Invocation(p, kwargs)>>,
              logged |-> <<>>,
              result |-> Return(Document(n + 1))]

\* variant: a failed parse is tried once more
assimilate_retries(arg, kwargs, wd, parsed, n) ==
    LET p == IF arg = None THEN wd ELSE arg
    IN  IF parsed.kind = "raise"
        THEN [invoked |-> <<Invocation(p, kwargs), Invocation(p, kwargs)>>,
              logged |-> IF IsException(parsed.exc)
                         THEN <<ErrorRecord(p, wd, parsed.exc)>> ELSE <<>>,
              result |-> Raise(parsed.exc)]
        ELSE [invoked |-> <<Invocation(p, kwargs)>>,
              logged |-> <<>>,
              result |-> Return(Document(n + 1))]

assimilate(arg, kwargs, wd, parsed, n) ==
    LET p == IF arg = None THEN wd ELSE arg
    IN  IF parsed.kind = "raise"
        THEN [invoked |-> <<Invocation(p, kwargs)>>,
              logged |-> IF IsException(parsed.exc)
                         THEN <<ErrorRecord(p, wd, parsed.exc)>> ELSE <<>>,
              result |-> Raise(parsed.exc)]
        ELSE [invoked |-> <<Invocation(p, kwargs)>>,
              logged |-> <<>>,
              result |-> Return(Document(n + 1))]

(***************************************************************************)
(* SpecAssim: assimilate called again and again on one drone               *)
(***************************************************************************)
MaxCalls == 2

\* the path argument: omitted, absolute, relative
AssimPaths ==
    { None,
      SEP \o S_run \o SEP \o S_final,     \* /run/final
      S_final }                           \* final

WorkingDirs == { SEP \o S_run, SEP }

\* what the external parser can do on one invocation
ParserResults ==
    {[kind |-> "doc"]} \cup
    {[kind |-> "raise", exc |-> e] :
        e \in {"FileNotFoundError", "ValueError", "KeyboardInterrupt"}}

InitAssim ==
    /\ task_document_kwargs \in KwargsSet
    /\ dir = [parent |-> SEP \o S_run, names |-> {}]
    /\ path = NoCall
    /\ first = NoCall
    /\ second = NoCall
    /\ WalkIdle
    /\ cwd \in WorkingDirs
    /\ parser_calls = <<>>
    /\ log = <<>>
    /\ outcomes = <<>>

\* drone.assimilate(path)
Call_assimilate(arg, parsed) ==
    LET r == assimilate(arg, task_document_kwargs, cwd, parsed,
                        Len(parser_calls))
    IN  /\ Len(outcomes) < MaxCalls
        /\ parser_calls' = parser_calls \o r.invoked
        /\ log' = log \o r.logged
        /\ outcomes' = Append(outcomes,
               [arg |-> arg, kwargs |-> task_document_kwargs, cwd |-> cwd,
                parsed |-> parsed, logged |-> r.logged, result |-> r.result])
        /\ UNCHANGED <<task_document_kwargs, dir, path, first, second, top,
                       tree, pc, todo, visits, cwd>>

NextAssim ==
    \E arg \in AssimPaths, parsed \in ParserResults :
        Call_assimilate(arg, parsed)

SpecAssim == InitAssim /\ [][NextAssim]_vars

(***************************************************************************)
(* Claims checked under SpecAssim                                          *)
(***************************************************************************)
\* the absolute form of a call's path, stated apart from the code
AbsoluteForm(o) ==
    LET p == IF o.arg = None THEN o.cwd ELSE o.arg
    IN  IF p[1] = "/" THEN p
        ELSE IF o.cwd = SEP THEN SEP \o p ELSE o.cwd \o SEP \o p

RECURSIVE Flatten(_)
Flatten(ss) == IF ss = <<>> THEN <<>> ELSE Head(ss) \o Flatten(Tail(ss))

LoggedOnce(o) ==
    /\ Len(o.logged) = 1
    /\ o.logged[1].level = "ERROR"
    /\ o.logged[1].abspath = AbsoluteForm(o)
    /\ o.logged[1].traceback = o.parsed.exc

SuccessPath(o) ==
    /\ o.result.kind = "return"
    /\ ~o.result.doc.none
    /\ o.logged = <<>>

\* C6: whenever the parser raises, assimilate emits exactly one ERROR record
\* holding the absolute path and its caller gets the very failure the parser
\* raised; whenever the parser succeeds, the caller gets the parser's
\* document and nothing is logged.
C6_FailureLoggedOnceAndReraised ==
    /\ \A i \in DOMAIN outcomes :
          LET o == outcomes[i]
          IN  IF o.parsed.kind = "raise"
              THEN LoggedOnce(o) /\ o.result = Raise(o.parsed.exc)
              ELSE SuccessPath(o)
    /\ log = Flatten([i \in DOMAIN outcomes |-> outcomes[i].logged])

\* C6 as amended: whenever the parser raises a failure derived from
\* Exception, assimilate emits exactly one ERROR record holding the absolute
\* path and its caller gets the very failure the parser raised; a failure
\* derived from BaseException alone (KeyboardInterrupt, SystemExit) reaches
\* the caller unchanged with nothing logged; whenever the parser succeeds,
\* the caller gets the parser's document and nothing is logged. No failure
\* is swallowed.
C6_ExceptionLoggedOnceAndReraised ==
    /\ \A i \in DOMAIN outcomes :
          LET o == outcomes[i]
          IN  IF o.parsed.kind = "raise"
              THEN /\ o.result = Raise(o.parsed.exc)
                   /\ IF o.parsed.exc \in {"KeyboardInterrupt", "SystemExit"}
                      THEN o.logged = <<>>
                      ELSE LoggedOnce(o)
              ELSE SuccessPath(o)
    /\ log = Flatten([i \in DOMAIN outcomes |-> outcomes[i].logged])

\* C6's case: the parser raised FileNotFoundError on a relative path, after
\* a call that succeeded.
C6_Witness ==
    /\ Len(outcomes) = 2
    /\ outcomes[1].parsed.kind = "doc"
    /\ outcomes[2].parsed = [kind |-> "raise", exc |-> "FileNotFoundError"]
    /\ outcomes[2].arg = S_final
    /\ Len(log) = 1

\* C7: each assimilate call invokes the parser exactly once, with the path
\* given (the current working directory when omitted) and the drone's
\* options; the invocations number as many as the calls and no document of
\* an earlier call is returned again.
C7_OneParsePerCall ==
    /\ Len(parser_calls) = Len(outcomes)
    /\ \A i \in DOMAIN outcomes :
          /\ i \in DOMAIN parser_calls
          /\ parser_calls[i].path =
                (IF outcomes[i].arg = None THEN cwd ELSE outcomes[i].arg)
          /\ parser_calls[i].kwargs = task_document_kwargs
    /\ \A i, j \in DOMAIN outcomes :
          (i < j /\ outcomes[i].result.kind = "return"
                 /\ outcomes[j].result.kind = "return")
             => outcomes[i].result.doc # outcomes[j].result.doc

\* C7's case: the same path assimilated twice, a failure then a success,
\* or the path omitted twice with two documents returned.
C7_Witness ==
    /\ Len(outcomes) = 2
    /\ outcomes[1].arg = outcomes[2].arg
    /\ \/ /\ outcomes[1].result.kind = "raise"
          /\ outcomes[2].result.kind = "return"
       \/ /\ outcomes[1].arg = None
          /\ outcomes[1].result.kind = "return"
          /\ outcomes[2].result.kind = "return"

====
